---- MODULE Spec2Model ----
(***************************************************************************)
(* n8n-nodes-stagehand: the execute() methods of the Playwright node       *)
(* (class Playwright, and its earlier form PlaywrightNode) and of the      *)
(* Stagehand node, as state machines over the input items, and the         *)
(* execute() method of the CDP Tools node with its two helpers.            *)
(*                                                                         *)
(* A run is one call of execute(): the host supplies n input items, the    *)
(* parameters of item i are read with getNodeParameter(name, i, fallback)  *)
(* when the code reads them, and every awaited call on the remote browser  *)
(* (connectOverCDP, newContext, newPage, the page methods, close) may     *)
(* resolve or reject.                                                      *)
(***************************************************************************)
EXTENDS Integers, Sequences, FiniteSets, TLC

VARIABLES
    node,       \* which class's execute() is running
    model,      \* Stagehand: the object getInputConnectionData returned
    n,          \* items.length
    i,          \* the loop index of execute()
    pc,         \* position inside execute()
    cur,        \* the parameters read so far for the item being processed
    browser,    \* what the connected remote browser holds (contexts, pages)
    calls,      \* the remote calls made for the current item, in order
    results,    \* the results array
    exc,        \* the exception in flight ("none" when there is none)
    connects,   \* calls of connectOverCDP / stagehand.init, whole run
    acquired,   \* sessions obtained (connect / init resolved), whole run
    released,   \* calls of browser.close / stagehand.close, whole run
    open,       \* sessions currently connected and not closed
    fieldList,  \* fieldsToZodSchema called on its own: the argument
    schemas,    \* fieldsToZodSchema called on its own: the value returned
    prompt,     \* CdpTools: what the stub language-model client captured
    tree,       \* CdpTools: the value getAccessibilityTree returned
    nodesMap    \* CdpTools: the value getNodesMap returned

vars == <<node, model, n, i, pc, cur, browser, calls, results, exc,
          connects, acquired, released, open, fieldList, schemas,
          prompt, tree, nodesMap>>

\* ------------------------------------------------------------------ bounds
MaxItems == 2
MaxFields == 2

\* ------------------------------------------------------- program constants
DefaultQuality == 80
DefaultDuration == 1000
QualityMinValue == 0
QualityMaxValue == 100

\* ------------------------------------------------------------ input values
\* A parameter of an item is either absent (<< >>) or present (<< v >>).
Absent == << >>
Given(v) == << v >>

\* getNodeParameter(name, i, fallback): the item's value, else the fallback.
GetNodeParameter(raw, fallback) == IF raw = Absent THEN fallback ELSE raw[1]

StrInputs(v) == {Absent, Given(v)}

PwNodes == {"Playwright", "PlaywrightNode"}
Nodes == PwNodes \cup {"Stagehand"}

\* The operations the node description offers (the 'operation' options).
PwOperations(nd) ==
    IF nd = "Playwright"
    THEN {"click", "evaluate", "fill", "executablePath", "goto", "press",
          "screenshot", "selectOption", "type", "waitForLoadState",
          "waitForSelector", "waitForTimeout"}
    ELSE {"executablePath", "goto", "screenshot"}

ShOperations == {"act", "extract", "observe"}

\* What getNodeParameter('operation', i) can hand to execute(): a declared
\* operation, or a string outside the declared set.
UnknownOperation == "teleport"
OperationInputs(nd) ==
    (IF nd = "Stagehand" THEN ShOperations ELSE PwOperations(nd))
        \cup {UnknownOperation}

\* The 'case' labels of the switch in execute().
PwCases(nd) == PwOperations(nd) \ {"executablePath"}

\* Only the later Playwright class has a catch clause around the switch.
HasCatch(nd) == nd = "Playwright"

\* Only the later Playwright class reads options.timeout and passes it on.
TimeoutOption(nd) == IF nd = "Playwright" THEN "timeout" ELSE "none"

\* How an awaited remote call can end.
ActionOutcomes == {"ok", "ActionError", "TimeoutError"}
ConnectOutcomes == {"ok", "ConnectionError"}
CloseOutcomes == {"ok", "CloseError"}

\* ----------------------------------------------------------------- records
NoItem == [item |-> -1, operation |-> "none", params |-> << >>]

OkRecord(k, op) == [item |-> k, operation |-> op, error |-> "none"]
\* { error: new NodeOperationError(node, error, ...), json: {} }
ErrorRecord(k, e) == [item |-> k, operation |-> "", error |-> e]

Call(name, args, bound, out) ==
    [call |-> name, args |-> args, bound |-> bound, out |-> out]

Called(name) == \E k \in 1..Len(calls) : calls[k].call = name

\* -------------------------------------------------------------------- Init
\* CdpTools: the stub client was not called, `prompt` is still unassigned.
NoPrompt == [captured |-> FALSE, parts |-> << >>]

\* The Stagehand node's model input: nothing connected, or an object whose
\* lc_namespace, model and apiKey are each absent, a non-string or a string.
NoModel == [lc_namespace |-> << >>, model |-> "undefined",
            apiKey |-> "undefined"]
ChatNamespace == <<"langchain", "chat_models", "openai">>
LlmNamespace == <<"langchain", "llms", "openai">>
ModelInputs ==
    {NoModel} \cup
    [lc_namespace : {ChatNamespace, LlmNamespace},
     model : {"undefined", "number", "gpt-4o", "deepseek-chat"},
     apiKey : {"undefined", "number", "sk-key"}]

Init ==
    /\ node \in Nodes
    /\ model \in (IF node = "Stagehand" THEN ModelInputs ELSE {NoModel})
    /\ n \in 0..MaxItems
    /\ i = 0
    /\ pc = IF node = "Stagehand" THEN "assert" ELSE "loop"
    /\ cur = NoItem
    /\ browser = [contexts |-> 0, pages |-> 0]
    /\ calls = << >>
    /\ results = << >>
    /\ exc = "none"
    /\ connects = 0
    /\ acquired = 0
    /\ released = 0
    /\ open = 0
    /\ fieldList = << >>
    /\ schemas = << >>
    /\ prompt = NoPrompt
    /\ tree = << >>
    /\ nodesMap = << >>

\* ------------------------------------------------------ Playwright.execute
\* A loop head without the executablePath shortcut: every item connects.
PwLoop_AlwaysConnect ==
    /\ node \in PwNodes
    /\ pc = "loop"
    /\ IF i < n
       THEN \E op \in OperationInputs(node) :
              /\ cur' = [item |-> i, operation |-> op, params |-> << >>]
              /\ calls' = << >>
              /\ pc' = "connect"
       ELSE /\ pc' = "done"
            /\ UNCHANGED <<cur, calls>>
    /\ UNCHANGED <<prompt, tree, nodesMap, fieldList, schemas, node, model, n, i, browser, results,
                   exc, connects, acquired, released, open>>

\* for (let i = 0; i < items.length; i++): read the operation; the
\* executablePath operation pushes its record and continues.
PwLoop ==
    /\ node \in PwNodes
    /\ pc = "loop"
    /\ IF i < n
       THEN \E op \in OperationInputs(node) :
              /\ cur' = [item |-> i, operation |-> op, params |-> << >>]
              /\ calls' = << >>
              /\ IF op = "executablePath"
                 THEN /\ results' = Append(results, OkRecord(i, op))
                      /\ i' = i + 1
                      /\ pc' = "loop"
                 ELSE /\ pc' = "connect"
                      /\ UNCHANGED <<results, i>>
       ELSE /\ pc' = "done"
            /\ UNCHANGED <<cur, calls, results, i>>
    /\ UNCHANGED <<prompt, tree, nodesMap, fieldList, schemas, node, model, n, browser, exc, connects, acquired,
                   released, open>>

\* const browser = await chromium.connectOverCDP(cdpUrl): outside the try.
PwConnect ==
    /\ node \in PwNodes
    /\ pc = "connect"
    /\ \E out \in ConnectOutcomes, ctx \in 0..1, pg \in 0..1 :
         /\ pg <= ctx
         /\ calls' = Append(calls,
                Call("chromium.connectOverCDP", << >>, "none", out))
         /\ connects' = connects + 1
         /\ IF out = "ok"
            THEN /\ acquired' = acquired + 1
                 /\ open' = open + 1
                 /\ browser' = [contexts |-> ctx, pages |-> pg]
                 /\ pc' = "context"
                 /\ exc' = exc
            ELSE /\ ctx = 0 /\ pg = 0
                 /\ pc' = "thrown"
                 /\ exc' = out
                 /\ UNCHANGED <<acquired, open, browser>>
    /\ UNCHANGED <<prompt, tree, nodesMap, fieldList, schemas, node, model, n, i, cur, results, released>>

\* A context step that creates a context whether or not one exists.
PwContext_AlwaysNew ==
    /\ node \in PwNodes
    /\ pc = "context"
    /\ \E out \in {"ok", "ActionError"} :
         /\ calls' = Append(calls,
                Call("browser.newContext", << >>, "none", out))
         /\ IF out = "ok"
            THEN /\ browser' = [contexts |-> browser.contexts + 1, pages |-> 0]
                 /\ pc' = "page"
                 /\ exc' = exc
            ELSE /\ pc' = "thrown"
                 /\ exc' = out
                 /\ browser' = browser
    /\ UNCHANGED <<prompt, tree, nodesMap, fieldList, schemas, node, model, n, i, cur, results,
                   connects, acquired, released, open>>

\* const context = browser.contexts()[0] ?? (await browser.newContext())
PwContext ==
    /\ node \in PwNodes
    /\ pc = "context"
    /\ IF browser.contexts > 0
       THEN /\ pc' = "page"
            /\ UNCHANGED <<browser, calls, exc>>
       ELSE \E out \in {"ok", "ActionError"} :
              /\ calls' = Append(calls,
                     Call("browser.newContext", << >>, "none", out))
              /\ IF out = "ok"
                 THEN /\ browser' = [contexts |-> 1, pages |-> 0]
                      /\ pc' = "page"
                      /\ exc' = exc
                 ELSE /\ pc' = "thrown"
                      /\ exc' = out
                      /\ browser' = browser
    /\ UNCHANGED <<prompt, tree, nodesMap, fieldList, schemas, node, model, n, i, cur, results, connects, acquired,
                   released, open>>

\* const page = context.pages()[0] ?? (await context.newPage())
PwPage ==
    /\ node \in PwNodes
    /\ pc = "page"
    /\ IF browser.pages > 0
       THEN /\ pc' = "try"
            /\ UNCHANGED <<browser, calls, exc>>
       ELSE \E out \in {"ok", "ActionError"} :
              /\ calls' = Append(calls,
                     Call("context.newPage", << >>, "none", out))
              /\ IF out = "ok"
                 THEN /\ browser' = [browser EXCEPT !.pages = 1]
                      /\ pc' = "try"
                      /\ exc' = exc
                 ELSE /\ pc' = "thrown"
                      /\ exc' = out
                      /\ browser' = browser
    /\ UNCHANGED <<prompt, tree, nodesMap, fieldList, schemas, node, model, n, i, cur, results, connects, acquired,
                   released, open>>

\* An exception inside the try: the catch clause (where there is one) pushes
\* an error record; without a catch the exception stays in flight while the
\* finally clause runs.
PwCatch(e) ==
    /\ IF HasCatch(node)
       THEN /\ results' = Append(results, ErrorRecord(i, e))
            /\ exc' = "none"
       ELSE /\ results' = results
            /\ exc' = e
    /\ pc' = "finally"

\* One case of the switch: the parameters were read, the page method is
\* awaited, and on success the record is pushed.
PwInvoke(params, name, args, bound, out) ==
    /\ cur' = [cur EXCEPT !.params = params]
    /\ calls' = Append(calls, Call(name, args, bound, out))
    /\ IF out = "ok"
       THEN /\ results' = Append(results, OkRecord(i, cur.operation))
            /\ exc' = "none"
            /\ pc' = "finally"
       ELSE PwCatch(out)
    /\ UNCHANGED <<prompt, tree, nodesMap, fieldList, schemas, node, model, n, i, browser, connects, acquired,
                   released, open>>

PwInCase(op) ==
    /\ node \in PwNodes
    /\ pc = "try"
    /\ op \in PwCases(node)
    /\ cur.operation = op

\* case 'goto'
PwGoto ==
    /\ PwInCase("goto")
    /\ \E rawUrl \in StrInputs("https://example.com"), out \in ActionOutcomes :
         LET url == GetNodeParameter(rawUrl, "")
         IN  PwInvoke([url |-> rawUrl], "page.goto", [url |-> url],
                      TimeoutOption(node), out)

\* case 'screenshot': page.screenshot, then helpers.prepareBinaryData.
PwScreenshot ==
    /\ PwInCase("screenshot")
    /\ \E rawFullPage \in {Absent, Given(TRUE)},
          rawQuality \in {Absent, Given(50), Given(150), Given(-1)},
          out \in ActionOutcomes, bin \in {"ok", "BinaryDataError"} :
         LET fullPage == GetNodeParameter(rawFullPage, FALSE)
             quality == GetNodeParameter(rawQuality, DefaultQuality)
             shot == Call("page.screenshot",
                          [fullPage |-> fullPage, quality |-> quality],
                          TimeoutOption(node), out)
         IN  /\ cur' = [cur EXCEPT !.params =
                            [fullPage |-> rawFullPage, quality |-> rawQuality]]
             /\ IF out = "ok"
                THEN /\ calls' = calls \o
                         <<shot, Call("helpers.prepareBinaryData", << >>,
                                      "none", bin)>>
                     /\ IF bin = "ok"
                        THEN /\ results' =
                                  Append(results, OkRecord(i, cur.operation))
                             /\ exc' = "none"
                             /\ pc' = "finally"
                        ELSE PwCatch(bin)
                ELSE /\ bin = "ok"
                     /\ calls' = Append(calls, shot)
                     /\ PwCatch(out)
    /\ UNCHANGED <<prompt, tree, nodesMap, fieldList, schemas, node, model, n, i, browser, connects, acquired,
                   released, open>>

\* case 'click'
PwClick ==
    /\ PwInCase("click")
    /\ \E rawSelector \in StrInputs("css=button"), out \in ActionOutcomes :
         LET selector == GetNodeParameter(rawSelector, "")
         IN  PwInvoke([selector |-> rawSelector], "page.click",
                      [selector |-> selector], TimeoutOption(node), out)

\* case 'fill': case 'type': both call page.fill.
PwFill ==
    /\ \/ PwInCase("fill")
       \/ PwInCase("type")
    /\ \E rawSelector \in StrInputs("css=input"), rawText \in StrInputs("abc"),
          out \in ActionOutcomes :
         LET selector == GetNodeParameter(rawSelector, "")
             text == GetNodeParameter(rawText, "")
         IN  PwInvoke([selector |-> rawSelector, text |-> rawText],
                      "page.fill", [selector |-> selector, text |-> text],
                      TimeoutOption(node), out)

\* case 'selectOption'
PwSelectOption ==
    /\ PwInCase("selectOption")
    /\ \E rawSelector \in StrInputs("css=select"), rawValue \in StrInputs("v1"),
          out \in ActionOutcomes :
         LET selector == GetNodeParameter(rawSelector, "")
             value == GetNodeParameter(rawValue, "")
         IN  PwInvoke([selector |-> rawSelector, value |-> rawValue],
                      "page.selectOption",
                      [selector |-> selector, value |-> value],
                      TimeoutOption(node), out)

\* case 'press'
PwPress ==
    /\ PwInCase("press")
    /\ \E rawSelector \in StrInputs("css=input"), rawKey \in StrInputs("Tab"),
          out \in ActionOutcomes :
         LET selector == GetNodeParameter(rawSelector, "")
             key == GetNodeParameter(rawKey, "Enter")
         IN  PwInvoke([selector |-> rawSelector, key |-> rawKey],
                      "page.press", [selector |-> selector, key |-> key],
                      TimeoutOption(node), out)

\* case 'waitForTimeout': page.waitForTimeout(duration), no options.
PwWaitForTimeout ==
    /\ PwInCase("waitForTimeout")
    /\ \E rawDuration \in {Absent, Given(500)},
          out \in {"ok", "ActionError"} :
         LET duration == GetNodeParameter(rawDuration, DefaultDuration)
         IN  PwInvoke([duration |-> rawDuration], "page.waitForTimeout",
                      [duration |-> duration], "none", out)

\* case 'waitForSelector'
PwWaitForSelector ==
    /\ PwInCase("waitForSelector")
    /\ \E rawSelector \in StrInputs("css=div"), out \in ActionOutcomes :
         LET selector == GetNodeParameter(rawSelector, "")
         IN  PwInvoke([selector |-> rawSelector], "page.waitForSelector",
                      [selector |-> selector], TimeoutOption(node), out)

\* A check that lets every state through.
LoadStateSupported_Any(state) == state = state

\* state !== 'load' && state !== 'domcontentloaded' && state !== 'networkidle'
LoadStateSupported(state) ==
    state \in {"load", "domcontentloaded", "networkidle"}

\* case 'waitForLoadState': an unsupported state throws before the call.
PwWaitForLoadState ==
    /\ PwInCase("waitForLoadState")
    /\ \E rawState \in {Absent, Given("load"), Given("domcontentloaded"),
                        Given("networkidle"), Given("bogus")},
          out \in ActionOutcomes :
         LET state == GetNodeParameter(rawState, "load")
         IN  IF LoadStateSupported(state)
             THEN PwInvoke([state |-> rawState], "page.waitForLoadState",
                           [state |-> state], TimeoutOption(node), out)
             ELSE /\ out = "ok"
                  /\ cur' = [cur EXCEPT !.params = [state |-> rawState]]
                  /\ PwCatch("Unsupported load state")
                  /\ UNCHANGED <<prompt, tree, nodesMap, fieldList, schemas, node, model, n, i, browser, calls, connects,
                                 acquired, released, open>>

\* case 'evaluate': page.evaluate(script, { timeout }): the second argument
\* of evaluate is the argument handed to the script.
PwEvaluate ==
    /\ PwInCase("evaluate")
    /\ \E rawScript \in StrInputs("document.title"),
          out \in {"ok", "ActionError"} :
         LET script == GetNodeParameter(rawScript, "")
         IN  PwInvoke([script |-> rawScript], "page.evaluate",
                      [script |-> script, arg |-> TimeoutOption(node)],
                      "none", out)

\* default: throw new ApplicationError(`Unsupported operation: ...`)
PwDefault ==
    /\ node \in PwNodes
    /\ pc = "try"
    /\ cur.operation \notin PwCases(node)
    /\ PwCatch("Unsupported operation")
    /\ UNCHANGED <<prompt, tree, nodesMap, fieldList, schemas, node, model, n, i, cur, browser, calls, connects,
                   acquired, released, open>>

\* An end of iteration that leaves the browser connected.
PwFinally_NoClose ==
    /\ node \in PwNodes
    /\ pc = "finally"
    /\ IF exc = "none"
       THEN /\ i' = i + 1
            /\ pc' = "loop"
       ELSE /\ i' = i
            /\ pc' = "thrown"
    /\ UNCHANGED <<prompt, tree, nodesMap, fieldList, schemas, node, model, n, cur, browser, calls,
                   results, exc, connects, acquired, released, open>>

\* finally { await browser.close(); }, then the next iteration, or the
\* exception in flight leaves execute().  A close() that rejects replaces
\* the exception in flight; whether the connection is then gone is not known.
PwFinally ==
    /\ node \in PwNodes
    /\ pc = "finally"
    /\ \E out \in CloseOutcomes, gone \in BOOLEAN :
         /\ calls' = Append(calls, Call("browser.close", << >>, "none", out))
         /\ released' = released + 1
         /\ IF out = "ok"
            THEN /\ gone
                 /\ open' = open - 1
                 /\ exc' = exc
                 /\ IF exc = "none"
                    THEN /\ i' = i + 1
                         /\ pc' = "loop"
                    ELSE /\ i' = i
                         /\ pc' = "thrown"
            ELSE /\ open' = IF gone THEN open - 1 ELSE open
                 /\ exc' = out
                 /\ i' = i
                 /\ pc' = "thrown"
    /\ UNCHANGED <<prompt, tree, nodesMap, fieldList, schemas, node, model, n, cur, browser, results, connects, acquired>>

\* ------------------------------------------------------- schema resolution
\* zod schemas, as the structures the zod constructors build.
ZString == [kind |-> "string"]
ZNumber == [kind |-> "number"]
ZBoolean == [kind |-> "boolean"]
ZNull == [kind |-> "null"]
ZAny == [kind |-> "any"]
ZUnknown == [kind |-> "unknown"]
ZArray(element) == [kind |-> "array", element |-> element]
ZObject(shape, unknownKeys) ==
    [kind |-> "object", shape |-> shape, unknownKeys |-> unknownKeys]
ZOptional(inner) == [kind |-> "optional", inner |-> inner]

\* A switch whose array case constrains the elements to strings.
FieldZodType_TypedArray(fieldType) ==
    CASE fieldType = "string" -> ZString
      [] fieldType = "number" -> ZNumber
      [] fieldType = "boolean" -> ZBoolean
      [] fieldType = "array" -> ZArray(ZString)
      [] fieldType = "object" -> ZObject(<< >>, "passthrough")
      [] OTHER -> ZAny

\* The switch on fieldType in fieldsToZodSchema.
FieldZodType(fieldType) ==
    CASE fieldType = "string" -> ZString
      [] fieldType = "number" -> ZNumber
      [] fieldType = "boolean" -> ZBoolean
      [] fieldType = "array" -> ZArray(ZAny)
      [] fieldType = "object" -> ZObject(<< >>, "passthrough")
      [] OTHER -> ZAny

\* A loop that starts from an empty shape at every entry.
RECURSIVE FieldsShape_Fresh(_, _)
FieldsShape_Fresh(fields, shape) ==
    IF fields = << >>
    THEN shape
    ELSE LET f == Head(fields)
             zType == FieldZodType(f.fieldType)
             entry == IF f.optional THEN ZOptional(zType) ELSE zType
         IN  FieldsShape_Fresh(Tail(fields), (f.fieldName :> entry))

\* The loop of fieldsToZodSchema: shape[fieldName] = ..., entry by entry.
RECURSIVE FieldsShape(_, _)
FieldsShape(fields, shape) ==
    IF fields = << >>
    THEN shape
    ELSE LET f == Head(fields)
             zType == FieldZodType(f.fieldType)
             entry == IF f.optional THEN ZOptional(zType) ELSE zType
         IN  FieldsShape(Tail(fields), (f.fieldName :> entry) @@ shape)

fieldsToZodSchema(fields) == ZObject(FieldsShape(fields, << >>), "strip")

Field(name, type, optional) ==
    [fieldName |-> name, fieldType |-> type, optional |-> optional]

\* Values of the 'fields.field' parameter used as inputs of execute().
FieldsInputs ==
    {Absent,
     Given(<<Field("title", "string", FALSE)>>),
     Given(<<Field("title", "string", FALSE), Field("tags", "array", TRUE)>>)}

\* JSON values.
JString == [t |-> "string"]
JNumber == [t |-> "number"]
JBoolean == [t |-> "boolean"]
JNull == [t |-> "null"]
JArray(elements) == [t |-> "array", elements |-> elements]
JObject(members) == [t |-> "object", members |-> members]

SyntaxError == [t |-> "SyntaxError"]

\* JSON.parse on the texts used as inputs.
JSONParse(text) ==
    CASE text = "{\"title\":\"x\",\"count\":1}" ->
            JObject([title |-> JString, count |-> JNumber])
      [] text = "[\"x\"]" -> JArray(<<JString>>)
      [] text = "\"x\"" -> JString
      [] text = "{\"type\":\"object\",\"properties\":{\"title\":{\"type\":\"string\"}},\"required\":[\"title\"]}" ->
            JObject([type |-> "object",
                     properties |-> [title |-> [type |-> "string"]],
                     required |-> {"title"}])
      [] text = "{\"type\":\"string\"}" -> JObject([type |-> "string"])
      [] OTHER -> SyntaxError

ExampleInputs ==
    {"{\"title\":\"x\",\"count\":1}", "[\"x\"]", "\"x\"", "{oops"}
JsonSchemaInputs ==
    {"{\"type\":\"object\",\"properties\":{\"title\":{\"type\":\"string\"}},\"required\":[\"title\"]}",
     "{\"type\":\"string\"}", "{oops"}

\* json-to-zod: the schema that the generated code builds for a JSON value.
RECURSIVE jsonToZod(_)
jsonToZod(v) ==
    CASE v.t = "string" -> ZString
      [] v.t = "number" -> ZNumber
      [] v.t = "boolean" -> ZBoolean
      [] v.t = "null" -> ZNull
      [] v.t = "array" ->
            IF v.elements = << >>
            THEN ZArray(ZUnknown)
            ELSE ZArray(jsonToZod(v.elements[1]))
      [] v.t = "object" ->
            ZObject([k \in DOMAIN v.members |-> jsonToZod(v.members[k])],
                    "strip")

\* json-schema-to-zod, for documents with type / properties / required.
jsonSchemaToZod(js) ==
    LET doc == js.members
        Prim(type) == CASE type = "string" -> ZString
                        [] type = "number" -> ZNumber
                        [] type = "boolean" -> ZBoolean
                        [] OTHER -> ZAny
    IN  IF doc.type = "object"
        THEN ZObject([k \in DOMAIN doc.properties |->
                        IF k \in doc.required
                        THEN Prim(doc.properties[k].type)
                        ELSE ZOptional(Prim(doc.properties[k].type))],
                     "strip")
        ELSE Prim(doc.type)

\* new Function('z', `return ${zodCode};`)(z) on the texts used as inputs.
ManualInputs == {"z.object({ title: z.string() })", "z.object({"}
EvalZod(zodCode) ==
    IF zodCode = "z.object({ title: z.string() })"
    THEN ZObject([title |-> ZString], "strip")
    ELSE SyntaxError

SchemaSourceInputs ==
    {Absent, Given("fieldList"), Given("example"), Given("jsonSchema"),
     Given("manual"), Given("yaml")}

\* The descriptor parameter that each schema source reads.
DescriptorInputs(schemaSource) ==
    CASE schemaSource = "fieldList" -> FieldsInputs
      [] schemaSource = "example" -> {Given(t) : t \in ExampleInputs}
      [] schemaSource = "jsonSchema" -> {Given(t) : t \in JsonSchemaInputs}
      [] schemaSource = "manual" -> {Given(t) : t \in ManualInputs}
      [] OTHER -> {Absent}

\* switch (schemaSource): the schema, or the error the case throws.
ResolveSchema(schemaSource, rawDescriptor) ==
    CASE schemaSource = "fieldList" ->
            fieldsToZodSchema(GetNodeParameter(rawDescriptor, << >>))
      [] schemaSource = "example" ->
            LET parsed == JSONParse(rawDescriptor[1])
            IN  IF parsed = SyntaxError THEN SyntaxError ELSE jsonToZod(parsed)
      [] schemaSource = "jsonSchema" ->
            LET parsed == JSONParse(rawDescriptor[1])
            IN  IF parsed = SyntaxError THEN SyntaxError
                ELSE jsonSchemaToZod(parsed)
      [] schemaSource = "manual" -> EvalZod(rawDescriptor[1])
      [] OTHER -> [t |-> "Unsupported schema source"]

IsError(schema) == "t" \in DOMAIN schema

\* -------------------------------------------------------- Stagehand.execute
\* A check that accepts every object that has a namespace.
isChatInstance_AnyNamespace(m) == Len(m.lc_namespace) > 0

\* namespace = model?.lc_namespace ?? []; namespace.includes('chat_models')
isChatInstance(m) ==
    \E k \in 1..Len(m.lc_namespace) : m.lc_namespace[k] = "chat_models"

\* The five assert() calls ahead of the loop.
ModelAsserts(m) ==
    /\ isChatInstance(m)
    /\ m.model /= "undefined"
    /\ m.apiKey /= "undefined"
    /\ m.model \notin {"undefined", "number"}
    /\ m.apiKey \notin {"undefined", "number"}

ShAssert ==
    /\ node = "Stagehand"
    /\ pc = "assert"
    /\ IF ModelAsserts(model)
       THEN /\ pc' = "loop"
            /\ exc' = exc
       ELSE /\ pc' = "thrown"
            /\ exc' = "AssertionError"
    /\ UNCHANGED <<prompt, tree, nodesMap, fieldList, schemas, node, model, n, i, cur, browser, calls, results,
                   connects, acquired, released, open>>

\* for (...): operation, cdpUrl and options.enableCaching are read and the
\* StagehandCore object is constructed.
ShLoop ==
    /\ node = "Stagehand"
    /\ pc = "loop"
    /\ IF i < n
       THEN \E op \in OperationInputs(node) :
              /\ cur' = [item |-> i, operation |-> op, params |-> << >>]
              /\ calls' = << >>
              /\ pc' = "init"
       ELSE /\ pc' = "done"
            /\ UNCHANGED <<cur, calls>>
    /\ UNCHANGED <<prompt, tree, nodesMap, fieldList, schemas, node, model, n, i, browser, results, exc, connects,
                   acquired, released, open>>

\* model.model.includes('deepseek') ? 'deepseek' : model.lc_namespace[2]
Provider(m) ==
    IF m.model = "deepseek-chat" THEN "deepseek" ELSE m.lc_namespace[3]

\* await stagehand.init(): outside the try.
ShInit ==
    /\ node = "Stagehand"
    /\ pc = "init"
    /\ \E out \in ConnectOutcomes :
         /\ calls' = Append(calls,
                Call("stagehand.init",
                     [modelName |-> <<Provider(model), "/", model.model>>,
                      apiKey |-> model.apiKey], "none", out))
         /\ connects' = connects + 1
         /\ IF out = "ok"
            THEN /\ acquired' = acquired + 1
                 /\ open' = open + 1
                 /\ pc' = "try"
                 /\ exc' = exc
            ELSE /\ pc' = "thrown"
                 /\ exc' = out
                 /\ UNCHANGED <<acquired, open>>
    /\ UNCHANGED <<prompt, tree, nodesMap, fieldList, schemas, node, model, n, i, cur, browser, results, released>>

\* results.push({ json: { operation, result: await stagehand.page.X(...) } })
\* inside try { } finally { }: there is no catch clause.
ShInvoke(params, name, args, out) ==
    /\ cur' = [cur EXCEPT !.params = params]
    /\ calls' = Append(calls, Call(name, args, "none", out))
    /\ IF out = "ok"
       THEN /\ results' = Append(results, OkRecord(i, cur.operation))
            /\ exc' = "none"
       ELSE /\ results' = results
            /\ exc' = out
    /\ pc' = "finally"
    /\ UNCHANGED <<prompt, tree, nodesMap, fieldList, schemas, node, model, n, i, browser, connects, acquired,
                   released, open>>

ShInCase(op) ==
    /\ node = "Stagehand"
    /\ pc = "try"
    /\ cur.operation = op

\* case 'act'
ShAct ==
    /\ ShInCase("act")
    /\ \E rawInstruction \in StrInputs("click login"),
          out \in ActionOutcomes :
         LET instruction == GetNodeParameter(rawInstruction, "")
         IN  ShInvoke([instruction |-> rawInstruction], "page.act",
                      [instruction |-> instruction], out)

\* case 'extract': the schema is built inside the try, then page.extract.
ShExtract ==
    /\ ShInCase("extract")
    /\ \E rawInstruction \in StrInputs("get the title"),
          rawSource \in SchemaSourceInputs, out \in ActionOutcomes :
         LET instruction == GetNodeParameter(rawInstruction, "")
             schemaSource == GetNodeParameter(rawSource, "example")
         IN  \E rawDescriptor \in DescriptorInputs(schemaSource) :
               LET schema == ResolveSchema(schemaSource, rawDescriptor)
                   params == [instruction |-> rawInstruction,
                              schemaSource |-> rawSource,
                              descriptor |-> rawDescriptor]
               IN  IF IsError(schema)
                   THEN /\ out = "ok"
                        /\ cur' = [cur EXCEPT !.params = params]
                        /\ exc' = schema.t
                        /\ pc' = "finally"
                        /\ UNCHANGED <<prompt, tree, nodesMap, fieldList, schemas, node, model, n, i, browser, calls,
                                       results, connects, acquired,
                                       released, open>>
                   ELSE ShInvoke(params, "page.extract",
                                 [instruction |-> instruction,
                                  schema |-> schema], out)

\* case 'observe'
ShObserve ==
    /\ ShInCase("observe")
    /\ \E rawInstruction \in StrInputs("find buttons"),
          out \in ActionOutcomes :
         LET instruction == GetNodeParameter(rawInstruction, "")
         IN  ShInvoke([instruction |-> rawInstruction], "page.observe",
                      [instruction |-> instruction], out)

\* default: throw new ApplicationError(`Unsupported operation: ...`)
ShDefault ==
    /\ node = "Stagehand"
    /\ pc = "try"
    /\ cur.operation \notin ShOperations
    /\ exc' = "Unsupported operation"
    /\ pc' = "finally"
    /\ UNCHANGED <<prompt, tree, nodesMap, fieldList, schemas, node, model, n, i, cur, browser, calls, results,
                   connects, acquired, released, open>>

\* finally { await stagehand.close(); }
ShFinally ==
    /\ node = "Stagehand"
    /\ pc = "finally"
    /\ \E out \in CloseOutcomes, gone \in BOOLEAN :
         /\ calls' = Append(calls, Call("stagehand.close", << >>, "none", out))
         /\ released' = released + 1
         /\ IF out = "ok"
            THEN /\ gone
                 /\ open' = open - 1
                 /\ exc' = exc
                 /\ IF exc = "none"
                    THEN /\ i' = i + 1
                         /\ pc' = "loop"
                    ELSE /\ i' = i
                         /\ pc' = "thrown"
            ELSE /\ open' = IF gone THEN open - 1 ELSE open
                 /\ exc' = out
                 /\ i' = i
                 /\ pc' = "thrown"
    /\ UNCHANGED <<prompt, tree, nodesMap, fieldList, schemas, node, model, n, cur, browser, results, connects, acquired>>

\* ------------------------------------------------------------ specification
Next ==
    \/ PwLoop
    \/ PwConnect
    \/ PwContext
    \/ PwPage
    \/ PwGoto
    \/ PwScreenshot
    \/ PwClick
    \/ PwFill
    \/ PwSelectOption
    \/ PwPress
    \/ PwWaitForTimeout
    \/ PwWaitForSelector
    \/ PwWaitForLoadState
    \/ PwEvaluate
    \/ PwDefault
    \/ PwFinally
    \/ ShAssert
    \/ ShLoop
    \/ ShInit
    \/ ShAct
    \/ ShExtract
    \/ ShObserve
    \/ ShDefault
    \/ ShFinally

Spec == Init /\ [][Next]_vars

\* execute() has returned [results], or has thrown.
Returned == pc = "done"
Thrown == pc = "thrown"

TypeOK ==
    /\ node \in Nodes
    /\ n \in 0..MaxItems
    /\ i \in 0..n
    /\ pc \in {"assert", "loop", "connect", "context", "page", "init", "try",
               "finally", "done", "thrown"}
    /\ Len(results) <= n
    /\ open \in 0..1
    /\ acquired <= connects

\* ------------------------------------------------------------------ claims
\* The nodes the contract is about: the Playwright class and the Stagehand
\* class with a usable model attached.
Contracted ==
    \/ node = "Playwright"
    \/ node = "Stagehand" /\ ModelAsserts(model)

AcquireCalls ==
    {"chromium.connectOverCDP", "stagehand.init", "browser.newContext",
     "context.newPage"}
ReleaseCalls == {"browser.close", "stagehand.close"}
ActionCalls ==
    {"page.goto", "page.screenshot", "page.click", "page.fill",
     "page.selectOption", "page.press", "page.waitForTimeout",
     "page.waitForSelector", "page.waitForLoadState", "page.evaluate",
     "page.act", "page.extract", "page.observe"}

FailedCalls(names) ==
    {k \in 1..Len(calls) : calls[k].call \in names /\ calls[k].out /= "ok"}

\* The record of the current item is in results and is an error record.
CurrentItemFailedRecord ==
    /\ Len(results) = cur.item + 1
    /\ results[cur.item + 1].item = cur.item
    /\ results[cur.item + 1].error /= "none"

\* C1: execute() produces exactly one result record per input item, the k-th
\* record being the result of the k-th item, whatever mix of succeeding and
\* failing items it is given.
C1_OneResultPerItem ==
    (Contracted /\ (Returned \/ Thrown)) =>
        /\ Returned
        /\ Len(results) = n
        /\ \A k \in 1..n : results[k].item = k - 1

\* C2: a session acquired for an item is released exactly once; whenever an
\* item is over or the run has ended, count(acquire) = count(release).
C2_AcquireReleaseBalanced ==
    Contracted =>
        /\ pc \in {"loop", "done", "thrown"} => acquired = released
        /\ Cardinality({k \in 1..Len(calls) :
                            calls[k].call \in ReleaseCalls}) <= 1

\* C3: when the action of an item fails while it is invoked, the exception
\* is not in flight out of execute(): an error record carrying the error is
\* in results for that item.
C3_ActionFailureContained ==
    (Contracted /\ FailedCalls(ActionCalls) /= {}) =>
        /\ exc \notin {"ActionError", "TimeoutError"}
        /\ CurrentItemFailedRecord
        /\ \E k \in FailedCalls(ActionCalls) :
              results[cur.item + 1].error = calls[k].out

\* C4: a failure while acquiring the session of an item becomes an error
\* record of that item and never leaves execute().
C4_AcquireFailureContained ==
    (Contracted /\ FailedCalls(AcquireCalls) /= {}) =>
        /\ ~Thrown
        /\ exc = "none"
        /\ CurrentItemFailedRecord

\* C5: an item whose operation is outside the node's set of operations fails
\* with the unsupported-operation error, and neither connectOverCDP nor
\* stagehand.init is called for it.
C5_UnknownOperationNoSession ==
    (Contracted /\ cur.operation = UnknownOperation) =>
        /\ ~Called("chromium.connectOverCDP")
        /\ ~Called("stagehand.init")
        /\ \A k \in 1..Len(calls) : calls[k].call \notin ActionCalls
        /\ \A k \in 1..Len(results) :
              results[k].item = cur.item =>
                  results[k].error = "Unsupported operation"

\* C6: with no usable model credential attached (no chat model, no model
\* name, no string apiKey) the Stagehand node fails before any session is
\* acquired: stagehand.init is never called in that run.
StringValues == {"gpt-4o", "deepseek-chat", "sk-key"}
MissingCredential ==
    \/ model = NoModel
    \/ "chat_models" \notin {model.lc_namespace[k] :
                                k \in 1..Len(model.lc_namespace)}
    \/ model.model \notin StringValues
    \/ model.apiKey \notin StringValues

C6_NoCredentialNoInit ==
    (node = "Stagehand" /\ MissingCredential) =>
        /\ connects = 0
        /\ acquired = 0
        /\ ~Called("stagehand.init")
        /\ results = << >>
        /\ pc \in {"assert", "thrown"}

C6_Witness ==
    /\ node = "Stagehand"
    /\ MissingCredential
    /\ model /= NoModel
    /\ n > 0
    /\ Thrown
    /\ exc = "AssertionError"

\* C7: a waitForLoadState item whose state is not load, domcontentloaded or
\* networkidle never reaches page.waitForLoadState, and its record is the
\* error record of the unsupported state, not a success record.
BadLoadState ==
    /\ cur.operation = "waitForLoadState"
    /\ "state" \in DOMAIN cur.params
    /\ cur.params.state /= Absent
    /\ cur.params.state[1] \notin {"load", "domcontentloaded", "networkidle"}

C7_BadLoadStateRejected ==
    (node = "Playwright" /\ BadLoadState) =>
        /\ ~Called("page.waitForLoadState")
        /\ Len(results) = cur.item + 1
        /\ results[cur.item + 1] =
               ErrorRecord(cur.item, "Unsupported load state")

C7_Witness ==
    /\ node = "Playwright"
    /\ BadLoadState
    /\ pc = "loop"
    /\ i = cur.item + 1
    /\ released = acquired

\* C8: a screenshot item whose quality is outside 0..100 is rejected before
\* any remote call: no connect for it, and page.screenshot is never called
\* with the out-of-range value.
BadQuality ==
    /\ cur.operation = "screenshot"
    /\ "quality" \in DOMAIN cur.params
    /\ cur.params.quality /= Absent
    /\ cur.params.quality[1] \notin QualityMinValue..QualityMaxValue

C8_BadQualityRejected ==
    (node \in PwNodes /\ BadQuality) =>
        /\ ~Called("chromium.connectOverCDP")
        /\ \A k \in 1..Len(calls) :
              calls[k].call = "page.screenshot" =>
                  calls[k].args.quality \in QualityMinValue..QualityMaxValue

\* C9: an extract item whose schema descriptor cannot be resolved raises its
\* error with no session acquired, and only that item is aborted.
UnresolvableSchema ==
    /\ cur.operation = "extract"
    /\ "descriptor" \in DOMAIN cur.params
    /\ IsError(ResolveSchema(
                   GetNodeParameter(cur.params.schemaSource, "example"),
                   cur.params.descriptor))

C9_SchemaErrorBeforeSession ==
    (node = "Stagehand" /\ UnresolvableSchema) =>
        /\ ~Called("stagehand.init")
        /\ ~Called("page.extract")
        /\ exc = "none"

\* C10: an item that lacks a required parameter of its operation fails with
\* a validation error: the browser action is never invoked with the missing
\* parameter replaced by a default.
RequiredParams(nd, op) ==
    IF nd = "Stagehand"
    THEN {"instruction"}
    ELSE CASE op = "goto" -> {"url"}
           [] op = "click" -> {"selector"}
           [] op \in {"fill", "type"} -> {"selector", "text"}
           [] op = "press" -> {"selector", "key"}
           [] op = "selectOption" -> {"selector", "value"}
           [] op = "waitForSelector" -> {"selector"}
           [] op = "waitForTimeout" -> {"duration"}
           [] op = "evaluate" -> {"script"}
           [] OTHER -> {}

MissingRequired ==
    \E p \in RequiredParams(node, cur.operation) :
        /\ p \in DOMAIN cur.params
        /\ cur.params[p] = Absent

C10_MissingParamRejected ==
    (Contracted /\ MissingRequired) =>
        \A k \in 1..Len(calls) : calls[k].call \notin ActionCalls

\* C11: items are processed one after the other with at most one session
\* open at any time: when the next item is read or its session is being
\* opened, the session of the item before it has been closed.
C11_OneSessionAtATime ==
    /\ open \in 0..1
    /\ pc \in {"loop", "connect", "init", "done"} => open = 0
    /\ pc \in {"context", "page", "try", "finally"} =>
          /\ open = 1
          /\ acquired = released + 1

C11_Witness ==
    /\ node = "Playwright"
    /\ cur.item = 1
    /\ pc = "try"
    /\ open = 1
    /\ acquired = 2
    /\ released = 1
    /\ results[1].error /= "none"

\* C12: a failing close never overrides the result of the operation: when
\* closing the session of an item fails, execute() does not throw and the
\* record of the item stays delivered.
C12_CloseFailureMasksNothing ==
    (Contracted /\ FailedCalls(ReleaseCalls) /= {}) =>
        /\ ~Thrown
        /\ exc = "none"

\* C13: the executablePath operation needs no session: no connect, no
\* context, no page and no close for the item, one success record for it,
\* and the loop moves on to the next item.
C13_ExecutablePathNoSession ==
    (node \in PwNodes /\ cur.operation = "executablePath") =>
        /\ calls = << >>
        /\ pc \in {"loop", "done"}
        /\ exc = "none"
        /\ i = cur.item + 1
        /\ Len(results) = cur.item + 1
        /\ results[cur.item + 1] = OkRecord(cur.item, "executablePath")
        /\ open = 0
        /\ acquired = released

C13_Witness ==
    /\ node \in PwNodes
    /\ cur.operation = "executablePath"
    /\ cur.item = 1
    /\ results[1].operation = "executablePath"
    /\ connects = 0
    /\ pc = "done"

\* ------------------------------------------- fieldsToZodSchema on its own
\* The field lists handed to fieldsToZodSchema: up to MaxFields entries; a
\* fieldType is one of the five the description offers or another string.
FieldNames == {"title", "tags"}
FieldTypes == {"string", "number", "boolean", "array", "object", "date"}
FieldEntries ==
    [fieldName : FieldNames, fieldType : FieldTypes, optional : BOOLEAN]
FieldLists ==
    UNION {[1..len -> FieldEntries] : len \in 0..MaxFields}

InitFields ==
    /\ node = "Stagehand"
    /\ model = NoModel
    /\ n = 0
    /\ i = 0
    /\ pc = "fieldsToZodSchema"
    /\ cur = NoItem
    /\ browser = [contexts |-> 0, pages |-> 0]
    /\ calls = << >>
    /\ results = << >>
    /\ exc = "none"
    /\ connects = 0
    /\ acquired = 0
    /\ released = 0
    /\ open = 0
    /\ fieldList \in FieldLists
    /\ schemas = << >>
    /\ prompt = NoPrompt
    /\ tree = << >>
    /\ nodesMap = << >>

\* schema = Stagehand.fieldsToZodSchema(fields)
FieldsToZodSchemaCall ==
    /\ pc = "fieldsToZodSchema"
    /\ schemas' = <<fieldsToZodSchema(fieldList)>>
    /\ pc' = "returned"
    /\ UNCHANGED <<prompt, tree, nodesMap, fieldList, node, model, n, i, cur, browser, calls,
                   results, exc, connects, acquired, released, open>>

NextFields == FieldsToZodSchemaCall

SpecFields == InitFields /\ [][NextFields]_vars

\* The schema field that an entry of the field list stands for: the
\* primitive of its kind, an array of unconstrained elements, or an open
\* object; optional exactly when the entry says so.
DeclaredKinds == {"string", "number", "boolean", "array", "object"}
ExpectedKind(kind) ==
    CASE kind = "string" -> [kind |-> "string"]
      [] kind = "number" -> [kind |-> "number"]
      [] kind = "boolean" -> [kind |-> "boolean"]
      [] kind = "array" -> [kind |-> "array", element |-> [kind |-> "any"]]
      [] kind = "object" ->
            [kind |-> "object", shape |-> << >>,
             unknownKeys |-> "passthrough"]
ExpectedField(f) ==
    IF f.optional
    THEN [kind |-> "optional", inner |-> ExpectedKind(f.fieldType)]
    ELSE ExpectedKind(f.fieldType)

EntryMapped(k) ==
    LET f == fieldList[k]
        shape == schemas[1].shape
    IN  /\ f.fieldName \in DOMAIN shape
        /\ shape[f.fieldName] = ExpectedField(f)

LastOfItsName(k) ==
    \A j \in (k + 1)..Len(fieldList) :
        fieldList[j].fieldName /= fieldList[k].fieldName

\* C14 as stated: every entry of the field list (of one of the five kinds)
\* is mapped to a schema field of its kind, optional exactly when its flag
\* is true.
C14_EveryEntryMapped ==
    schemas /= << >> =>
        \A k \in 1..Len(fieldList) :
            fieldList[k].fieldType \in DeclaredKinds => EntryMapped(k)

\* C14 amended: every entry that is the last one of its name is mapped to a
\* schema field of its kind, optional exactly when its flag is true; an
\* earlier entry of a repeated name is replaced by the last one.
C14_LastEntryMapped ==
    schemas /= << >> =>
        /\ schemas[1].kind = "object"
        /\ \A k \in 1..Len(fieldList) :
              (fieldList[k].fieldType \in DeclaredKinds /\ LastOfItsName(k))
                  => EntryMapped(k)

C14_Witness ==
    /\ schemas /= << >>
    /\ fieldList = <<Field("title", "string", FALSE),
                     Field("tags", "array", TRUE)>>
    /\ schemas[1].shape.title = [kind |-> "string"]
    /\ schemas[1].shape.tags.kind = "optional"

\* C15: the schema built from a field list, repeated names included, has
\* exactly one field per distinct name of the list.
C15_OneFieldPerName ==
    schemas /= << >> =>
        /\ DOMAIN schemas[1].shape =
               {fieldList[k].fieldName : k \in 1..Len(fieldList)}
        /\ Cardinality(DOMAIN schemas[1].shape) <= Len(fieldList)

C15_Witness ==
    /\ schemas /= << >>
    /\ Len(fieldList) = 2
    /\ fieldList[1].fieldName = fieldList[2].fieldName
    /\ fieldList[1].fieldType /= fieldList[2].fieldType
    /\ DOMAIN schemas[1].shape = {fieldList[1].fieldName}

\* C17: an example document that is not a JSON object at the top level makes
\* the resolution fail with a schema error, and page.extract is not invoked
\* with a schema derived from it.
NonObjectExample ==
    /\ cur.operation = "extract"
    /\ "descriptor" \in DOMAIN cur.params
    /\ GetNodeParameter(cur.params.schemaSource, "example") = "example"
    /\ JSONParse(cur.params.descriptor[1]).t \in
           {"array", "string", "number", "boolean", "null"}

C17_NonObjectExampleRejected ==
    (node = "Stagehand" /\ NonObjectExample) =>
        /\ ~Called("page.extract")
        /\ exc /= "none"

\* C18: a request goes Idle, ParametersValidated, SessionAcquired,
\* ActionInvoked, Succeeded or Failed, SessionReleased, in that order: the
\* session is acquired only for an item whose operation and parameters have
\* been read and checked, an action is invoked only on an open session, and
\* when execute() ends the session has been released.
ParametersValidated ==
    /\ cur.operation \in OperationInputs(node) \ {UnknownOperation}
    /\ cur.params /= << >>

C18_LifecycleOrder ==
    Contracted =>
        /\ pc \in {"context", "page", "try"} => ParametersValidated
        /\ \A k \in 1..Len(calls) :
              calls[k].call \in ActionCalls =>
                  /\ \E j \in 1..(k - 1) :
                        /\ calls[j].call \in
                               {"chromium.connectOverCDP", "stagehand.init"}
                        /\ calls[j].out = "ok"
                  /\ \A j \in 1..(k - 1) : calls[j].call \notin ReleaseCalls
        /\ (Returned \/ Thrown) => acquired = released

\* C19: every session-based operation of the Playwright node hands the
\* configured options.timeout to its browser action as the time bound.
SessionActionCalls ==
    {"page.goto", "page.screenshot", "page.click", "page.fill",
     "page.selectOption", "page.press", "page.waitForSelector",
     "page.waitForLoadState", "page.waitForTimeout", "page.evaluate"}

C19_TimeoutHandedToEveryAction ==
    node = "Playwright" =>
        \A k \in 1..Len(calls) :
            calls[k].call \in SessionActionCalls =>
                calls[k].bound = "timeout"

\* C20: the Playwright node reuses the first context and the first page of
\* the connected browser when there is one and creates one otherwise: no
\* context or page is created when one exists, exactly one is asked for when
\* none exists, and an item creates at most one of each.
NewCallIs(name) ==
    /\ Len(calls') = Len(calls) + 1
    /\ calls'[Len(calls')].call = name

Created(name) ==
    Cardinality({k \in 1..Len(calls') : calls'[k].call = name})

ReuseOrCreateOneStep ==
    node \in PwNodes =>
        /\ (pc = "context" /\ browser.contexts > 0) =>
               (calls' = calls /\ browser' = browser /\ pc' = "page")
        /\ (pc = "context" /\ browser.contexts = 0) =>
               NewCallIs("browser.newContext")
        /\ (pc = "page" /\ browser.pages > 0) =>
               (calls' = calls /\ browser' = browser /\ pc' = "try")
        /\ (pc = "page" /\ browser.pages = 0) =>
               NewCallIs("context.newPage")
        /\ NewCallIs("browser.newContext") =>
               (pc = "context" /\ browser.contexts = 0)
        /\ NewCallIs("context.newPage") =>
               (pc = "page" /\ browser.pages = 0)
        /\ Created("browser.newContext") <= 1
        /\ Created("context.newPage") <= 1
        /\ pc' = "try" => (browser'.contexts = 1 /\ browser'.pages = 1)

C20_ReuseOrCreateOne == [][ReuseOrCreateOneStep]_vars

C20_Witness ==
    /\ node \in PwNodes
    /\ pc = "try"
    /\ ~Called("browser.newContext")
    /\ Called("context.newPage")
    /\ browser = [contexts |-> 1, pages |-> 1]

\* --------------------------------------------------- CdpTools: text values
\* A string is the sequence of its characters.
MaxSegments == 3

Digits == {"0", "1", "2", "3", "4", "5", "6", "7", "8", "9"}
DigitChars == <<"0", "1", "2", "3", "4", "5", "6", "7", "8", "9">>
Whitespace == {" ", "\n"}

Min(a, b) == IF a < b THEN a ELSE b
Max(a, b) == IF a > b THEN a ELSE b

\* `${i}`: the decimal digits of a non-negative integer.
RECURSIVE NumberToString(_)
NumberToString(k) ==
    IF k < 10
    THEN <<DigitChars[k + 1]>>
    ELSE NumberToString(k \div 10) \o <<DigitChars[(k % 10) + 1]>>

\* String.prototype.slice(start, end): indices count from 0, a negative
\* index counts from the end, both are clamped to the string.
SliceIndex(x, length) ==
    IF x < 0 THEN Max(length + x, 0) ELSE Min(x, length)
Slice(s, start, end) ==
    SubSeq(s, SliceIndex(start, Len(s)) + 1, SliceIndex(end, Len(s)))
SliceFrom(s, start) == Slice(s, start, Len(s))

\* String.prototype.trim()
RECURSIVE TrimStart(_)
TrimStart(s) ==
    IF s /= << >> /\ Head(s) \in Whitespace THEN TrimStart(Tail(s)) ELSE s
RECURSIVE TrimEnd(_)
TrimEnd(s) ==
    IF s /= << >> /\ s[Len(s)] \in Whitespace
    THEN TrimEnd(SubSeq(s, 1, Len(s) - 1))
    ELSE s
Trim(s) == TrimEnd(TrimStart(s))

\* /\[((?:\d+-)?\d+)\] /g : "[", digits, optionally "-" and digits, "]", " ".
RECURSIVE DigitRun(_, _)
DigitRun(s, p) ==
    IF p <= Len(s) /\ s[p] \in Digits THEN 1 + DigitRun(s, p + 1) ELSE 0

Closes(s, q) == q + 1 <= Len(s) /\ s[q] = "]" /\ s[q + 1] = " "

\* The length of the match that starts at position p (from 1), 0 for none.
MatchAt(s, p) ==
    LET d1 == DigitRun(s, p + 1)
        q1 == p + 1 + d1
        d2 == DigitRun(s, q1 + 1)
    IN  IF s[p] /= "[" \/ d1 = 0 THEN 0
        ELSE IF q1 <= Len(s) /\ s[q1] = "-" /\ d2 > 0
                /\ Closes(s, q1 + 1 + d2)
             THEN d1 + d2 + 4
        ELSE IF Closes(s, q1) THEN d1 + 3
        ELSE 0

\* A match: match.index (from 0), match[0] and match[1].
Match(s, p, length) ==
    [index |-> p - 1,
     text |-> SubSeq(s, p, p + length - 1),
     group |-> SubSeq(s, p + 1, p + length - 3)]

\* tree.matchAll(regex): the matches of the string as it is at the call,
\* from left to right, none overlapping another.
RECURSIVE MatchAllFrom(_, _)
MatchAllFrom(s, p) ==
    IF p > Len(s) THEN << >>
    ELSE IF MatchAt(s, p) > 0
         THEN <<Match(s, p, MatchAt(s, p))>>
                  \o MatchAllFrom(s, p + MatchAt(s, p))
         ELSE MatchAllFrom(s, p + 1)
matchAll(s) == MatchAllFrom(s, 1)

\* nodesMap[match[1]]: the entry, or undefined when the key is not there.
UndefinedEntry == <<"undefined">>
Lookup(map, key) == IF key \in DOMAIN map THEN map[key] ELSE UndefinedEntry

\* ------------------------------------------- CdpTools: marker renumbering
\* One pass of the for-of loop without the line that adjusts offset.
RenumberStep_NoOffset(st, match, map) ==
    LET before == Slice(st.tree, 0, match.index + st.offset)
        after == SliceFrom(st.tree,
                     match.index + Len(match.text) + st.offset)
        replace == <<"[">> \o NumberToString(st.i) \o <<"]", " ">>
    IN  [tree |-> before \o replace \o after,
         i |-> st.i + 1,
         offset |-> st.offset,
         xpaths |-> Append(st.xpaths, Lookup(map, match.group))]

\* One pass of `for (const match of matches)`: the locals tree, i, offset
\* and xpaths after the pass.
RenumberStep(st, match, map) ==
    LET before == Slice(st.tree, 0, match.index + st.offset)
        after == SliceFrom(st.tree,
                     match.index + Len(match.text) + st.offset)
        replace == <<"[">> \o NumberToString(st.i) \o <<"]", " ">>
    IN  [tree |-> before \o replace \o after,
         i |-> st.i + 1,
         offset |-> st.offset + Len(replace) - Len(match.text),
         xpaths |-> Append(st.xpaths, Lookup(map, match.group))]

RECURSIVE RenumberLoop(_, _, _)
RenumberLoop(st, matches, map) ==
    IF matches = << >>
    THEN st
    ELSE RenumberLoop(RenumberStep(st, Head(matches), map),
                      Tail(matches), map)

\* The json of the record pushed after the loop.
Renumbered(t, map) ==
    LET st == RenumberLoop([tree |-> t, i |-> 0, offset |-> 0,
                            xpaths |-> << >>], matchAll(t), map)
    IN  [accessibilityTree |-> st.tree, xpaths |-> st.xpaths]

CdpOkRecord(k, json) == [item |-> k, error |-> "none", json |-> json]
\* { error: new NodeOperationError(...), json: {} }
CdpErrorRecord(k, e) == [item |-> k, error |-> e, json |-> << >>]

\* The pieces the trees are put together from: a marker "[7] ", a marker
\* with a frame part "[1-2] ", text that looks like a marker but is none,
\* and a line break.
PlainMarker == <<"[", "7", "]", " ", "a">>
FramedMarker == <<"[", "1", "-", "2", "]", " ", "b">>
BareFramedMarker == <<"[", "3", "-", "4", "]", " ">>
NotMarker == <<"[", "x", "]", " ">>
NoSpaceMarker == <<"[", "5", "]">>
NewLine == <<"\n">>
Segments == {PlainMarker, FramedMarker, BareFramedMarker, NotMarker,
             NoSpaceMarker, NewLine}

RECURSIVE Concat(_)
Concat(parts) ==
    IF parts = << >> THEN << >> ELSE Head(parts) \o Concat(Tail(parts))

\* Ten markers "[9] c" ... "[0] c": the marker after them is renumbered to
\* a two-digit number.
RECURSIVE CountDown(_)
CountDown(d) ==
    <<"[", DigitChars[d + 1], "]", " ", "c">>
        \o (IF d = 0 THEN << >> ELSE CountDown(d - 1))
TenMarkers == CountDown(9)

UntrimmedTrees ==
    {head \o Concat(parts) :
        head \in {<< >>, TenMarkers},
        parts \in UNION {[1..m -> Segments] : m \in 0..MaxSegments}}

\* getAccessibilityTree returns a trimmed string.
TreeInputs == {Trim(t) : t \in UntrimmedTrees}

\* getNodesMap: one key per observe result, the description the stub client
\* gave the element, which is the id of a marker with a frame part.
FramedIds(t) ==
    {matchAll(t)[k].group : k \in {j \in 1..Len(matchAll(t)) :
        \E q \in 1..Len(matchAll(t)[j].group) :
            matchAll(t)[j].group[q] = "-"}}
Selector(id) == <<"xpath=/html/body/">> \o id
NodesMapOf(ids) ==
    IF ids = {} THEN << >> ELSE [id \in ids |-> Selector(id)]
NodesMapInputs(t) == {NodesMapOf(ids) : ids \in SUBSET FramedIds(t)}

\* ---------------------------------------- the renumbering loop on its own
InitRenumber ==
    /\ node = "CdpTools"
    /\ model = NoModel
    /\ n = 1
    /\ i = 0
    /\ pc = "renumber"
    /\ cur = NoItem
    /\ browser = [contexts |-> 0, pages |-> 0]
    /\ calls = << >>
    /\ results = << >>
    /\ exc = "none"
    /\ connects = 0
    /\ acquired = 0
    /\ released = 0
    /\ open = 0
    /\ fieldList = << >>
    /\ schemas = << >>
    /\ prompt = NoPrompt
    /\ tree \in TreeInputs
    /\ nodesMap \in NodesMapInputs(tree)

\* Lines 52-72 of execute(): the loop over the matches, then results.push.
RenumberCall ==
    /\ pc = "renumber"
    /\ results' = Append(results, CdpOkRecord(i, Renumbered(tree, nodesMap)))
    /\ pc' = "pushed"
    /\ UNCHANGED <<prompt, tree, nodesMap, fieldList, schemas, node, model,
                   n, i, cur, browser, calls, exc, connects, acquired,
                   released, open>>

NextRenumber == RenumberCall

SpecRenumber == InitRenumber /\ [][NextRenumber]_vars

\* The tree with its k-th marker written as "[k] " and every other
\* character kept, read off the original from left to right.
RECURSIVE Rewritten(_, _, _)
Rewritten(s, p, k) ==
    IF p > Len(s) THEN << >>
    ELSE IF MatchAt(s, p) > 0
         THEN <<"[">> \o NumberToString(k) \o <<"]", " ">>
                  \o Rewritten(s, p + MatchAt(s, p), k + 1)
         ELSE <<s[p]>> \o Rewritten(s, p + 1, k)

\* C21: the emitted tree is the original with its k-th id marker replaced by
\* "[k] " (k from 0, in order of appearance) and all other text unchanged,
\* and xpaths has one entry per marker, the nodes-map entry of that marker's
\* original id, whatever the lengths of the markers and their replacements.
C21_MarkersRenumbered ==
    pc = "pushed" =>
        LET json == results[1].json
            markers == matchAll(tree)
        IN  /\ json.accessibilityTree = Rewritten(tree, 1, 0)
            /\ Len(json.xpaths) = Len(markers)
            /\ \A k \in 1..Len(markers) :
                   json.xpaths[k] = Lookup(nodesMap, markers[k].group)

\* A tree of twelve markers was renumbered: one replacement is longer than
\* its marker, one is shorter, and one xpath was found in the nodes map.
C21_Witness ==
    /\ pc = "pushed"
    /\ Len(matchAll(tree)) = 12
    /\ \E k \in 1..12 : Len(matchAll(tree)[k].text) < Len(NumberToString(k - 1)) + 3
    /\ \E k \in 1..12 : Len(matchAll(tree)[k].text) > Len(NumberToString(k - 1)) + 3
    /\ \E k \in 1..12 : results[1].json.xpaths[k] /= UndefinedEntry
    /\ \E k \in 1..12 : results[1].json.xpaths[k] = UndefinedEntry

\* ------------------------------------------------------- CdpTools.execute
\* What the stub client of getAccessibilityTree holds after observe(''):
\* nothing when it was never called, else the content of the second message
\* as split('Accessibility Tree: \n') cuts it.
Instruction == <<"i", "n", "s", "t", "r", "u", "c", "t", "i", "o", "n">>
PromptTrees ==
    {NewLine \o FramedMarker \o PlainMarker \o BareFramedMarker,
     NotMarker \o NewLine}
PromptInputs ==
    {NoPrompt, [captured |-> TRUE, parts |-> <<Instruction>>]}
        \cup {[captured |-> TRUE, parts |-> <<Instruction, t>>] :
                 t \in PromptTrees}

TreeHelper == "getAccessibilityTree"
MapHelper == "getNodesMap"

InitCdp ==
    /\ node = "CdpTools"
    /\ model = NoModel
    /\ n \in 0..MaxItems
    /\ i = 0
    /\ pc = "loop"
    /\ cur = NoItem
    /\ browser = [contexts |-> 0, pages |-> 0]
    /\ calls = << >>
    /\ results = << >>
    /\ exc = "none"
    /\ connects = 0
    /\ acquired = 0
    /\ released = 0
    /\ open = 0
    /\ fieldList = << >>
    /\ schemas = << >>
    /\ prompt = NoPrompt
    /\ tree = << >>
    /\ nodesMap = << >>

\* for (let i = 0; i < items.length; i++) { const cdpUrl = ...; then
\* return [results] after the last item.
CdpLoop ==
    /\ node = "CdpTools"
    /\ pc = "loop"
    /\ IF i < n
       THEN \E rawUrl \in StrInputs("ws://localhost:9222") :
              /\ cur' = [item |-> i, operation |-> "none",
                         params |-> [url |-> rawUrl]]
              /\ calls' = << >>
              /\ prompt' = NoPrompt
              /\ tree' = << >>
              /\ nodesMap' = << >>
              /\ pc' = "tree.init"
       ELSE /\ pc' = "done"
            /\ UNCHANGED <<cur, calls, prompt, tree, nodesMap>>
    /\ UNCHANGED <<fieldList, schemas, node, model, n, i, browser, results,
                   exc, connects, acquired, released, open>>

\* catch (error) { results.push({ error, json: {} }) }; continue
CdpCatch(e) ==
    /\ results' = Append(results, CdpErrorRecord(i, e))
    /\ i' = i + 1
    /\ pc' = "loop"

\* The sessions open after a close(): a second close() of an instance finds
\* nothing to close, and after a close() that rejects the session may or may
\* not be gone.
OpenAfterClose(out, gone) ==
    IF open > 0 /\ (out = "ok" \/ gone) THEN open - 1 ELSE open

\* await stagehand.init()
CdpInit(helper, out, next) ==
    /\ calls' = Append(calls, Call("stagehand.init", <<helper>>, "none", out))
    /\ connects' = connects + 1
    /\ IF out = "ok"
       THEN /\ acquired' = acquired + 1
            /\ open' = open + 1
            /\ pc' = next
            /\ UNCHANGED <<results, i>>
       ELSE /\ CdpCatch(out)
            /\ UNCHANGED <<acquired, open>>

\* getAccessibilityTree: await stagehand.init()
CdpTreeInit ==
    /\ node = "CdpTools"
    /\ pc = "tree.init"
    /\ \E out \in ConnectOutcomes : CdpInit(TreeHelper, out, "tree.observe")
    /\ UNCHANGED <<prompt, tree, nodesMap, fieldList, schemas, node, model,
                   n, cur, browser, exc, released>>

\* getAccessibilityTree: try { await page.observe('') } catch {}
CdpTreeObserve ==
    /\ node = "CdpTools"
    /\ pc = "tree.observe"
    /\ \E out \in ActionOutcomes, p \in PromptInputs :
         /\ calls' = Append(calls,
                Call("page.observe", <<TreeHelper>>, "none", out))
         /\ prompt' = p
    /\ pc' = "tree.close"
    /\ UNCHANGED <<tree, nodesMap, fieldList, schemas, node, model, n, i,
                   cur, browser, results, exc, connects, acquired, released,
                   open>>

\* getAccessibilityTree: finally { await stagehand.close() }, then
\* return prompt!.toString().split('Accessibility Tree: \n')[1].trim()
CdpTreeClose ==
    /\ node = "CdpTools"
    /\ pc = "tree.close"
    /\ \E out \in CloseOutcomes, gone \in BOOLEAN :
         /\ out = "ok" => gone
         /\ calls' = Append(calls,
                Call("stagehand.close", <<TreeHelper>>, "none", out))
         /\ released' = released + 1
         /\ open' = OpenAfterClose(out, gone)
         /\ IF out /= "ok"
            THEN /\ CdpCatch(out)
                 /\ tree' = tree
            ELSE IF ~prompt.captured \/ Len(prompt.parts) < 2
            THEN /\ CdpCatch("TypeError")
                 /\ tree' = tree
            ELSE /\ tree' = Trim(prompt.parts[2])
                 /\ pc' = "map.init"
                 /\ UNCHANGED <<results, i>>
    /\ UNCHANGED <<prompt, nodesMap, fieldList, schemas, node, model, n,
                   cur, browser, exc, connects, acquired>>

\* getNodesMap: await stagehand.init()
CdpMapInit ==
    /\ node = "CdpTools"
    /\ pc = "map.init"
    /\ \E out \in ConnectOutcomes : CdpInit(MapHelper, out, "map.observe")
    /\ UNCHANGED <<prompt, tree, nodesMap, fieldList, schemas, node, model,
                   n, cur, browser, exc, released>>

\* getNodesMap: const results = await page.observe('x'), inside the try
\* whose catch is empty.
CdpMapObserve ==
    /\ node = "CdpTools"
    /\ pc = "map.observe"
    /\ \E out \in ActionOutcomes, ids \in SUBSET FramedIds(tree) :
         /\ calls' = Append(calls,
                Call("page.observe", <<MapHelper>>, "none", out))
         /\ IF out = "ok"
            THEN /\ nodesMap' = NodesMapOf(ids)
                 /\ pc' = "map.close"
            ELSE /\ ids = {}
                 /\ nodesMap' = << >>
                 /\ pc' = "map.finally"
    /\ UNCHANGED <<prompt, tree, fieldList, schemas, node, model, n, i, cur,
                   browser, results, exc, connects, acquired, released, open>>

\* getNodesMap: await stagehand.close() inside the try, before the return;
\* when it rejects the empty catch swallows it and {} is returned.
CdpMapClose ==
    /\ node = "CdpTools"
    /\ pc = "map.close"
    /\ \E out \in CloseOutcomes, gone \in BOOLEAN :
         /\ out = "ok" => gone
         /\ calls' = Append(calls,
                Call("stagehand.close", <<MapHelper>>, "none", out))
         /\ released' = released + 1
         /\ open' = OpenAfterClose(out, gone)
         /\ nodesMap' = IF out = "ok" THEN nodesMap ELSE << >>
    /\ pc' = "map.finally"
    /\ UNCHANGED <<prompt, tree, fieldList, schemas, node, model, n, i, cur,
                   browser, results, exc, connects, acquired>>

\* getNodesMap: finally { await stagehand.close() }; then, back in
\* execute(), the markers are renumbered and the record is pushed.
CdpMapFinally ==
    /\ node = "CdpTools"
    /\ pc = "map.finally"
    /\ \E out \in CloseOutcomes, gone \in BOOLEAN :
         /\ out = "ok" => gone
         /\ calls' = Append(calls,
                Call("stagehand.close", <<MapHelper>>, "none", out))
         /\ released' = released + 1
         /\ open' = OpenAfterClose(out, gone)
         /\ IF out = "ok"
            THEN /\ results' = Append(results,
                        CdpOkRecord(i, Renumbered(tree, nodesMap)))
                 /\ i' = i + 1
                 /\ pc' = "loop"
            ELSE CdpCatch(out)
    /\ UNCHANGED <<prompt, tree, nodesMap, fieldList, schemas, node, model,
                   n, cur, browser, exc, connects, acquired>>

NextCdp ==
    \/ CdpLoop
    \/ CdpTreeInit
    \/ CdpTreeObserve
    \/ CdpTreeClose
    \/ CdpMapInit
    \/ CdpMapObserve
    \/ CdpMapClose
    \/ CdpMapFinally

SpecCdp == InitCdp /\ [][NextCdp]_vars

\* The calls of one helper's Stagehand instance for the current item.
InitResolved(helper) ==
    \E k \in 1..Len(calls) :
        /\ calls[k].call = "stagehand.init"
        /\ calls[k].args = <<helper>>
        /\ calls[k].out = "ok"
CloseCalls(helper) ==
    {k \in 1..Len(calls) :
        calls[k].call = "stagehand.close" /\ calls[k].args = <<helper>>}

\* The item is finished: the loop is back at its head, or has ended.
ItemFinished == pc \in {"loop", "done"} /\ cur.item >= 0

\* One of the two helpers threw for the current item.
HelperThrew ==
    \/ \E k \in 1..Len(calls) :
           /\ calls[k].call = "stagehand.init"
           /\ calls[k].out /= "ok"
    \/ \E k \in CloseCalls(TreeHelper) : calls[k].out /= "ok"
    \/ /\ CloseCalls(TreeHelper) /= {}
       /\ ~prompt.captured \/ Len(prompt.parts) < 2
    \/ /\ CloseCalls(MapHelper) /= {}
       /\ calls[Len(calls)].out /= "ok"

\* C22: every Stagehand instance a helper initialised is closed exactly once
\* whether observe succeeds or throws, the instance of getNodesMap is opened
\* only after the instance of getAccessibilityTree was closed, and a helper
\* that fails leaves one error record for its item and the loop goes on.
C22_InstancesClosedOnce ==
    /\ \A helper \in {TreeHelper, MapHelper} :
           (ItemFinished /\ InitResolved(helper)) =>
               Cardinality(CloseCalls(helper)) = 1
    /\ \A k \in 1..Len(calls) :
           (calls[k].call = "stagehand.init" /\ calls[k].args = <<MapHelper>>)
               => \E j \in 1..(k - 1) :
                      /\ calls[j].call = "stagehand.close"
                      /\ calls[j].args = <<TreeHelper>>
                      /\ calls[j].out = "ok"
    /\ pc /= "thrown"
    /\ ItemFinished =>
           /\ i = cur.item + 1
           /\ Len(results) = cur.item + 1
           /\ results[cur.item + 1].item = cur.item
           /\ (results[cur.item + 1].error /= "none") <=> HelperThrew

====
